---- MODULE Spec2Model ----
(***************************************************************************)
(* Grid Escape: the game-state engine of pygame_grid_escape/game_logic     *)
(* (board.py, pawn.py, player.py, game_state.py) as a state machine.       *)
(*                                                                         *)
(* A pawn is the pair <<player_id, pawn_id>>, a cell the pair <<x, y>>.    *)
(* Python's None is the empty tuple for object references and cells, and   *)
(* 0 for player ids (the ids in use are 1 and 2).                          *)
(***************************************************************************)
EXTENDS Integers, Sequences, FiniteSets, TLC

(***************************************************************************)
(* Bounds.  board.py sets GRID_SIZE = 7 and player.py creates 7 pawns; the *)
(* model scales both down and derives the edge rows and the centre range   *)
(* from them (y = GRID_SIZE - 1, 1 <= x <= GRID_SIZE - 2), which at        *)
(* GRID_SIZE = 7 are the literals 6 and 1..5 of the source.                *)
(***************************************************************************)
GRID_SIZE == 3

PAWNS_PER_PLAYER == 1

\* the number of place_pawn, move_pawn, escape_pawn and switch_turn calls
\* followed in one run
MaxCalls == 7

\* the same for the longer runs of SpecDeep
DeepCalls == 10

\* the same for the runs of SpecSelect, which add the selection
SelectCalls == 7

\* the same for the runs of SpecObjects, which add the direct calls of
\* Pawn.move_to and the queries
ObjectCalls == 4

\* the same for the runs of SpecEndgame, which start one escape from victory
EndCalls == 4

\* game_state.py: phases
PLAYING == 0

GAME_OVER == 1

None == <<>>

NoPlayer == 0

PlayerIds == {1, 2}

PawnIds == 0 .. (PAWNS_PER_PLAYER - 1)

Pawns == PlayerIds \X PawnIds

Coords == 0 .. (GRID_SIZE - 1)

Cells == Coords \X Coords

\* arguments a caller may pass: every cell of the grid and one cell beyond
\* each of its four edges
ArgCells ==
    Cells \cup {<<1, 0 - 1>>, <<0 - 1, 1>>, <<1, GRID_SIZE>>, <<GRID_SIZE, 1>>}

VARIABLES
    intersections,        \* Board._intersections : cell -> pawn or None
    position,             \* Pawn._position       : pawn -> cell or None
    escaped,              \* Pawn._escaped        : pawn -> bool
    phase,                \* GameState.phase
    current_player_index, \* GameState.current_player_index
    selected_pawn,        \* GameState.selected_pawn
    winner,               \* GameState.winner (player id, NoPlayer for None)
    turn_skipped,         \* GameState.turn_skipped
    skipped_player_id,    \* GameState.skipped_player_id
    stalemate,            \* GameState.stalemate
    op,                   \* the operation called last
    ret,                  \* what it returned, as a tuple
    last_actor,           \* history: the player of the last successful
                          \* action since the last switch_turn or reset_game
    calls_left            \* calls the run may still make

vars == <<intersections, position, escaped, phase, current_player_index,
          selected_pawn, winner, turn_skipped, skipped_player_id, stalemate,
          op, ret, last_actor, calls_left>>

\* the game proper: everything but the advisory and bookkeeping fields
game == <<intersections, position, escaped, phase, winner, stalemate,
          current_player_index>>

----------------------------------------------------------------------------
(* board.py *)

is_valid_position(x, y) ==
    0 <= x /\ x < GRID_SIZE /\ 0 <= y /\ y < GRID_SIZE

is_intersection_empty(b, x, y) ==
    IF ~is_valid_position(x, y) THEN FALSE ELSE b[<<x, y>>] = None

get_pawn_at_intersection(b, x, y) ==
    IF ~is_valid_position(x, y) THEN None ELSE b[<<x, y>>]

\* Board.place_pawn: the returned flag and the board afterwards
Board_place_pawn(b, pawn, x, y) ==
    IF ~is_valid_position(x, y) \/ ~is_intersection_empty(b, x, y)
    THEN [ok |-> FALSE, board |-> b]
    ELSE [ok |-> TRUE, board |-> [b EXCEPT ![<<x, y>>] = pawn]]

\* Board.remove_pawn that returns the pawn but leaves the cell as it was
Board_remove_pawn_keeps(b, x, y) == b

Board_remove_pawn(b, x, y) ==
    IF ~is_valid_position(x, y) THEN b ELSE [b EXCEPT ![<<x, y>>] = None]

\* Board.move_pawn that overwrites whatever the destination holds
Board_move_pawn_overwrites(b, from_x, from_y, to_x, to_y) ==
    IF \/ ~is_valid_position(from_x, from_y)
       \/ ~is_valid_position(to_x, to_y)
       \/ b[<<from_x, from_y>>] = None
    THEN [ok |-> FALSE, board |-> b]
    ELSE [ok |-> TRUE,
          board |-> [b EXCEPT ![<<from_x, from_y>>] = None,
                              ![<<to_x, to_y>>] = b[<<from_x, from_y>>]]]

Board_move_pawn(b, from_x, from_y, to_x, to_y) ==
    IF \/ ~is_valid_position(from_x, from_y)
       \/ ~is_valid_position(to_x, to_y)
       \/ b[<<from_x, from_y>>] = None
       \/ ~is_intersection_empty(b, to_x, to_y)
    THEN [ok |-> FALSE, board |-> b]
    ELSE [ok |-> TRUE,
          board |-> [b EXCEPT ![<<from_x, from_y>>] = None,
                              ![<<to_x, to_y>>] = b[<<from_x, from_y>>]]]

\* is_starting_position that accepts the starting edge of either player
is_starting_position_any_edge(x, y, player_id) ==
    IF ~is_valid_position(x, y) THEN FALSE
    ELSE \/ y = GRID_SIZE - 1 /\ 1 <= x /\ x <= GRID_SIZE - 2
         \/ x = GRID_SIZE - 1 /\ 1 <= y /\ y <= GRID_SIZE - 2

is_starting_position(x, y, player_id) ==
    IF ~is_valid_position(x, y) THEN FALSE
    ELSE IF player_id = 1 THEN y = GRID_SIZE - 1 /\ 1 <= x /\ x <= GRID_SIZE - 2
    ELSE IF player_id = 2 THEN x = GRID_SIZE - 1 /\ 1 <= y /\ y <= GRID_SIZE - 2
    ELSE FALSE

\* is_escape_position that takes the whole edge, corners included
is_escape_position_whole_edge(x, y, player_id) ==
    IF ~is_valid_position(x, y) THEN FALSE
    ELSE IF player_id = 1 THEN y = 0
    ELSE IF player_id = 2 THEN x = 0
    ELSE FALSE

is_escape_position(x, y, player_id) ==
    IF ~is_valid_position(x, y) THEN FALSE
    ELSE IF player_id = 1 THEN y = 0 /\ 1 <= x /\ x <= GRID_SIZE - 2
    ELSE IF player_id = 2 THEN x = 0 /\ 1 <= y /\ y <= GRID_SIZE - 2
    ELSE FALSE

\* up, down, left, right, in the order of the source
directions == << <<0, 0 - 1>>, <<0, 1>>, <<0 - 1, 0>>, <<1, 0>> >>

get_adjacent_intersections(x, y) ==
    IF ~is_valid_position(x, y) THEN <<>>
    ELSE LET shifted == [i \in 1 .. Len(directions) |->
                            <<x + directions[i][1], y + directions[i][2]>>]
         IN  SelectSeq(shifted, LAMBDA c : is_valid_position(c[1], c[2]))

get_valid_moves_from_position(b, x, y) ==
    SelectSeq(get_adjacent_intersections(x, y),
              LAMBDA c : is_intersection_empty(b, c[1], c[2]))

\* the cells in the order of the two nested loops: x outside, y inside
all_cells ==
    [i \in 1 .. (GRID_SIZE * GRID_SIZE) |->
        <<(i - 1) \div GRID_SIZE, (i - 1) % GRID_SIZE>>]

get_all_starting_positions(player_id) ==
    SelectSeq(all_cells, LAMBDA c : is_starting_position(c[1], c[2], player_id))

get_all_escape_positions(player_id) ==
    SelectSeq(all_cells, LAMBDA c : is_escape_position(c[1], c[2], player_id))

\* clear_board that leaves the pawns where they stand
clear_board_clears_nothing == intersections

clear_board == [c \in Cells |-> None]

----------------------------------------------------------------------------
(* pawn.py *)

is_on_board(pos, esc, pawn) == pos[pawn] # None /\ ~esc[pawn]

is_escaped(esc, pawn) == esc[pawn]

\* the direction test with <= for <: lateral neighbours pass it
direction_ok_lax(player_id, x, y, adj) ==
    \/ player_id = 1 /\ adj[2] <= y
    \/ player_id = 2 /\ adj[1] <= x

\* the allowed direction of Pawn.get_valid_moves
direction_ok(player_id, x, y, adj) ==
    \/ player_id = 1 /\ adj[2] < y
    \/ player_id = 2 /\ adj[1] < x

\* get_valid_moves without the direction filter: every empty neighbour
get_valid_moves_any_direction(b, pos, esc, pawn) ==
    IF ~is_on_board(pos, esc, pawn) \/ pos[pawn] = None THEN <<>>
    ELSE get_valid_moves_from_position(b, pos[pawn][1], pos[pawn][2])

get_valid_moves(b, pos, esc, pawn) ==
    IF ~is_on_board(pos, esc, pawn) \/ pos[pawn] = None THEN <<>>
    ELSE LET x == pos[pawn][1]
             y == pos[pawn][2]
         IN  SelectSeq(get_valid_moves_from_position(b, x, y),
                       LAMBDA adj : direction_ok(pawn[1], x, y, adj))

InSeq(e, s) == \E i \in 1 .. Len(s) : s[i] = e

----------------------------------------------------------------------------
(* player.py *)

get_pawns(player_id) == {pawn \in Pawns : pawn[1] = player_id}

get_pawns_on_board(pos, esc, player_id) ==
    {pawn \in get_pawns(player_id) : is_on_board(pos, esc, pawn)}

get_escaped_pawns(esc, player_id) ==
    {pawn \in get_pawns(player_id) : is_escaped(esc, pawn)}

\* get_unplaced_pawns that looks at the position alone
get_unplaced_pawns_by_position(pos, esc, player_id) ==
    {pawn \in get_pawns(player_id) : pos[pawn] = None}

get_unplaced_pawns(pos, esc, player_id) ==
    {pawn \in get_pawns(player_id) :
        ~is_on_board(pos, esc, pawn) /\ ~is_escaped(esc, pawn)}

has_won(esc, player_id) ==
    Cardinality(get_escaped_pawns(esc, player_id)) = PAWNS_PER_PLAYER

\* can_move_any_pawn that counts every empty neighbour as a move
can_move_any_pawn_ignores_direction(b, pos, esc, player_id) ==
    \E pawn \in get_pawns_on_board(pos, esc, player_id) :
        get_valid_moves_from_position(b, pos[pawn][1], pos[pawn][2]) # <<>>

can_move_any_pawn(b, pos, esc, player_id) ==
    \E pawn \in get_pawns_on_board(pos, esc, player_id) :
        get_valid_moves(b, pos, esc, pawn) # <<>>

----------------------------------------------------------------------------
(* game_state.py *)

\* players[index].player_id
player_at(index) == index + 1

get_current_player == player_at(current_player_index)

get_other_player == player_at((current_player_index + 1) % 2)

\* check_victory that never finds a winner
check_victory_finds_none(esc) == NoPlayer

\* the first player of the list who has won, NoPlayer when there is none
check_victory(esc) ==
    IF has_won(esc, 1) THEN 1
    ELSE IF has_won(esc, 2) THEN 2
    ELSE NoPlayer

\* can_player_move that is satisfied by any pawn on the board
can_player_move_any_on_board(b, pos, esc, player_id) ==
    get_pawns_on_board(pos, esc, player_id) # {}

\* can_player_move that finds a move for every player
can_player_move_always(b, pos, esc, player_id) == TRUE

can_player_move(b, pos, esc, player_id) ==
    can_move_any_pawn(b, pos, esc, player_id)

Init ==
    /\ intersections = [c \in Cells |-> None]
    /\ position = [pawn \in Pawns |-> None]
    /\ escaped = [pawn \in Pawns |-> FALSE]
    /\ phase = PLAYING
    /\ current_player_index = 0
    /\ selected_pawn = None
    /\ winner = NoPlayer
    /\ turn_skipped = FALSE
    /\ skipped_player_id = NoPlayer
    /\ stalemate = FALSE
    /\ op = "init"
    /\ ret = <<>>
    /\ last_actor = NoPlayer
    /\ calls_left = MaxCalls

\* reset_game that leaves the stalemate flag as it is
reset_game_keeps_stalemate ==
    /\ intersections' = clear_board
    /\ position' = [pawn \in Pawns |-> None]
    /\ escaped' = [pawn \in Pawns |-> FALSE]
    /\ phase' = PLAYING
    /\ current_player_index' = 0
    /\ selected_pawn' = None
    /\ winner' = NoPlayer
    /\ turn_skipped' = FALSE
    /\ skipped_player_id' = NoPlayer
    /\ op' = "reset_game"
    /\ ret' = <<>>
    /\ last_actor' = NoPlayer
    /\ UNCHANGED <<calls_left, stalemate>>

reset_game ==
    /\ intersections' = clear_board
    /\ position' = [pawn \in Pawns |-> None]
    /\ escaped' = [pawn \in Pawns |-> FALSE]
    /\ phase' = PLAYING
    /\ current_player_index' = 0
    /\ selected_pawn' = None
    /\ winner' = NoPlayer
    /\ turn_skipped' = FALSE
    /\ skipped_player_id' = NoPlayer
    /\ stalemate' = FALSE
    /\ op' = "reset_game"
    /\ ret' = <<>>
    /\ last_actor' = NoPlayer
    /\ UNCHANGED calls_left

\* Pawn.set_position: the pawns' positions and escaped flags afterwards
set_position(pos, esc, pawn, x, y) ==
    [position |-> [pos EXCEPT ![pawn] = <<x, y>>],
     escaped  |-> [esc EXCEPT ![pawn] = FALSE]]

\* Pawn.escape that sets the flag and keeps the position
escape_keeps_position(pos, esc, pawn) ==
    [position |-> pos,
     escaped  |-> [esc EXCEPT ![pawn] = TRUE]]

\* Pawn.escape
escape(pos, esc, pawn) ==
    [position |-> [pos EXCEPT ![pawn] = None],
     escaped  |-> [esc EXCEPT ![pawn] = TRUE]]

can_move_to(b, pos, esc, pawn, to_x, to_y) ==
    IF ~is_on_board(pos, esc, pawn) \/ pos[pawn] = None THEN FALSE
    ELSE InSeq(<<to_x, to_y>>, get_valid_moves(b, pos, esc, pawn))

\* Pawn.move_to without the escape handling: the pawn stays on the cell
Pawn_move_to_stays_on_board(b, pos, esc, pawn, to_x, to_y) ==
    IF ~can_move_to(b, pos, esc, pawn, to_x, to_y)
    THEN [ok |-> FALSE, board |-> b, position |-> pos, escaped |-> esc]
    ELSE LET moved == Board_move_pawn(b, pos[pawn][1], pos[pawn][2],
                                      to_x, to_y)
             placed == set_position(pos, esc, pawn, to_x, to_y)
         IN  IF ~moved.ok
             THEN [ok |-> FALSE, board |-> moved.board,
                   position |-> pos, escaped |-> esc]
             ELSE [ok |-> TRUE, board |-> moved.board,
                   position |-> placed.position, escaped |-> placed.escaped]

\* Pawn.move_to: the returned flag, the board and the pawns afterwards
Pawn_move_to(b, pos, esc, pawn, to_x, to_y) ==
    IF ~can_move_to(b, pos, esc, pawn, to_x, to_y)
    THEN [ok |-> FALSE, board |-> b, position |-> pos, escaped |-> esc]
    ELSE LET moved == Board_move_pawn(b, pos[pawn][1], pos[pawn][2],
                                      to_x, to_y)
             placed == set_position(pos, esc, pawn, to_x, to_y)
             gone == escape(placed.position, placed.escaped, pawn)
         IN  IF ~moved.ok
             THEN [ok |-> FALSE, board |-> moved.board,
                   position |-> pos, escaped |-> esc]
             ELSE IF is_escape_position(to_x, to_y, pawn[1])
             THEN [ok |-> TRUE,
                   board |-> Board_remove_pawn(moved.board, to_x, to_y),
                   position |-> gone.position, escaped |-> gone.escaped]
             ELSE [ok |-> TRUE, board |-> moved.board,
                   position |-> placed.position, escaped |-> placed.escaped]

\* the tail that sets winner and phase from the check whatever they were
advance_and_check_overwrites(esc) ==
    LET w == check_victory(esc)
    IN  /\ current_player_index' = (current_player_index + 1) % 2
        /\ winner' = w
        /\ phase' = IF w # NoPlayer THEN GAME_OVER ELSE PLAYING

\* the tail without the advance of the index: the actor keeps the turn
advance_and_check_keeps_turn(esc) ==
    LET w == check_victory(esc)
    IN  /\ current_player_index' = current_player_index
        /\ winner' = IF w # NoPlayer THEN w ELSE winner
        /\ phase' = IF w # NoPlayer THEN GAME_OVER ELSE phase

\* the tail shared by the three actions: advance the index, then check victory
advance_and_check(esc) ==
    LET w == check_victory(esc)
    IN  /\ current_player_index' = (current_player_index + 1) % 2
        /\ winner' = IF w # NoPlayer THEN w ELSE winner
        /\ phase' = IF w # NoPlayer THEN GAME_OVER ELSE phase

\* a return False taken before the call has assigned anything
return_false ==
    /\ ret' = <<FALSE>>
    /\ UNCHANGED <<intersections, position, escaped, phase, winner,
                   current_player_index>>

place_pawn(pawn, x, y) ==
    /\ calls_left > 0
    /\ calls_left' = calls_left - 1
    /\ op' = "place_pawn"
    /\ UNCHANGED <<selected_pawn, turn_skipped, skipped_player_id, stalemate>>
    /\ IF pawn[1] # get_current_player THEN return_false
       ELSE IF ~is_starting_position(x, y, pawn[1]) THEN return_false
       ELSE LET placed == Board_place_pawn(intersections, pawn, x, y)
            IN  IF placed.ok
                THEN LET after == set_position(position, escaped, pawn, x, y)
                     IN  /\ intersections' = placed.board
                         /\ position' = after.position
                         /\ escaped' = after.escaped
                         /\ advance_and_check(after.escaped)
                         /\ ret' = <<TRUE>>
                ELSE /\ intersections' = placed.board
                     /\ ret' = <<FALSE>>
                     /\ UNCHANGED <<position, escaped, phase, winner,
                                    current_player_index>>
    /\ last_actor' = IF ret' = <<TRUE>> THEN pawn[1] ELSE last_actor

\* move_pawn without the check that it is the turn of the pawn's owner
move_pawn_any_turn(pawn, to_x, to_y) ==
    /\ calls_left > 0
    /\ calls_left' = calls_left - 1
    /\ op' = "move_pawn"
    /\ UNCHANGED <<selected_pawn, turn_skipped, skipped_player_id, stalemate>>
    /\ IF phase # PLAYING THEN return_false
       ELSE IF position[pawn] = None THEN return_false
       ELSE IF ~InSeq(<<to_x, to_y>>,
                      get_valid_moves(intersections, position, escaped, pawn))
            THEN return_false
       ELSE LET moved == Board_move_pawn(intersections, position[pawn][1],
                                         position[pawn][2], to_x, to_y)
                after == set_position(position, escaped, pawn, to_x, to_y)
            IN  /\ moved.ok
                /\ intersections' = moved.board
                /\ position' = after.position
                /\ escaped' = after.escaped
                /\ advance_and_check(after.escaped)
                /\ ret' = <<TRUE>>
    /\ last_actor' = IF ret' = <<TRUE>> THEN pawn[1] ELSE last_actor

\* move_pawn behind a setup gate: it fails while a pawn is still unplaced
move_pawn_after_setup(pawn, to_x, to_y) ==
    /\ calls_left > 0
    /\ calls_left' = calls_left - 1
    /\ op' = "move_pawn"
    /\ UNCHANGED <<selected_pawn, turn_skipped, skipped_player_id, stalemate>>
    /\ IF phase # PLAYING THEN return_false
       ELSE IF \E id \in PlayerIds :
                   get_unplaced_pawns(position, escaped, id) # {}
            THEN return_false
       ELSE IF pawn[1] # get_current_player THEN return_false
       ELSE IF position[pawn] = None THEN return_false
       ELSE IF ~InSeq(<<to_x, to_y>>,
                      get_valid_moves(intersections, position, escaped, pawn))
            THEN return_false
       ELSE LET from_x == position[pawn][1]
                from_y == position[pawn][2]
                moved == Board_move_pawn(intersections, from_x, from_y,
                                         to_x, to_y)
            IN  IF moved.ok
                THEN LET after == set_position(position, escaped, pawn,
                                               to_x, to_y)
                     IN  /\ intersections' = moved.board
                         /\ position' = after.position
                         /\ escaped' = after.escaped
                         /\ advance_and_check(after.escaped)
                         /\ ret' = <<TRUE>>
                ELSE /\ intersections' = moved.board
                     /\ ret' = <<FALSE>>
                     /\ UNCHANGED <<position, escaped, phase, winner,
                                    current_player_index>>
    /\ last_actor' = IF ret' = <<TRUE>> THEN pawn[1] ELSE last_actor

move_pawn(pawn, to_x, to_y) ==
    /\ calls_left > 0
    /\ calls_left' = calls_left - 1
    /\ op' = "move_pawn"
    /\ UNCHANGED <<selected_pawn, turn_skipped, skipped_player_id, stalemate>>
    /\ IF phase # PLAYING THEN return_false
       ELSE IF pawn[1] # get_current_player THEN return_false
       ELSE IF position[pawn] = None THEN return_false
       ELSE IF ~InSeq(<<to_x, to_y>>,
                      get_valid_moves(intersections, position, escaped, pawn))
            THEN return_false
       ELSE LET from_x == position[pawn][1]
                from_y == position[pawn][2]
                moved == Board_move_pawn(intersections, from_x, from_y,
                                         to_x, to_y)
            IN  IF moved.ok
                THEN LET after == set_position(position, escaped, pawn,
                                               to_x, to_y)
                     IN  /\ intersections' = moved.board
                         /\ position' = after.position
                         /\ escaped' = after.escaped
                         /\ advance_and_check(after.escaped)
                         /\ ret' = <<TRUE>>
                ELSE /\ intersections' = moved.board
                     /\ ret' = <<FALSE>>
                     /\ UNCHANGED <<position, escaped, phase, winner,
                                    current_player_index>>
    /\ last_actor' = IF ret' = <<TRUE>> THEN pawn[1] ELSE last_actor

\* escape_pawn that takes the pawn off the board before it has checked the cell
escape_pawn_removes_first(pawn) ==
    /\ calls_left > 0
    /\ calls_left' = calls_left - 1
    /\ op' = "escape_pawn"
    /\ UNCHANGED <<selected_pawn, turn_skipped, skipped_player_id, stalemate>>
    /\ IF phase # PLAYING THEN return_false
       ELSE IF pawn[1] # get_current_player THEN return_false
       ELSE IF position[pawn] = None THEN return_false
       ELSE LET x == position[pawn][1]
                y == position[pawn][2]
                after == escape(position, escaped, pawn)
            IN  /\ intersections' = Board_remove_pawn(intersections, x, y)
                /\ position' = after.position
                /\ escaped' = after.escaped
                /\ IF ~is_escape_position(x, y, pawn[1])
                   THEN /\ ret' = <<FALSE>>
                        /\ UNCHANGED <<phase, winner, current_player_index>>
                   ELSE /\ advance_and_check(after.escaped)
                        /\ ret' = <<TRUE>>
    /\ last_actor' = IF ret' = <<TRUE>> THEN pawn[1] ELSE last_actor

escape_pawn(pawn) ==
    /\ calls_left > 0
    /\ calls_left' = calls_left - 1
    /\ op' = "escape_pawn"
    /\ UNCHANGED <<selected_pawn, turn_skipped, skipped_player_id, stalemate>>
    /\ IF phase # PLAYING THEN return_false
       ELSE IF pawn[1] # get_current_player THEN return_false
       ELSE IF position[pawn] = None THEN return_false
       ELSE LET x == position[pawn][1]
                y == position[pawn][2]
            IN  IF ~is_escape_position(x, y, pawn[1]) THEN return_false
                ELSE LET after == escape(position, escaped, pawn)
                     IN  /\ intersections' = Board_remove_pawn(intersections, x, y)
                         /\ position' = after.position
                         /\ escaped' = after.escaped
                         /\ advance_and_check(after.escaped)
                         /\ ret' = <<TRUE>>
    /\ last_actor' = IF ret' = <<TRUE>> THEN pawn[1] ELSE last_actor

(***************************************************************************)
(* The while loop of switch_turn.  The loop state is the turn index, the   *)
(* counter players_checked, the set checked_players and the two skip       *)
(* fields; exit says how the loop was left: "seen" is the return inside    *)
(* the loop (the player was checked already), "break" the break, "done"    *)
(* the loop condition turning false.                                       *)
(***************************************************************************)
\* the while condition with the counter test left out: only the set of
\* checked players ends the loop
loop_continues_while_unseen(players_checked) == TRUE

\* the condition of the while loop
loop_continues(players_checked) == players_checked < 2

\* what one call has done so far: entries into the loop body, the players
\* can_player_move was evaluated for, assignments to current_player_index
first_steps == [iterations |-> 0, evaluated |-> <<>>, advances |-> 1]

RECURSIVE skip_scan(_, _, _, _, _, _)
skip_scan(index, players_checked, checked_players, skipped, skipped_id, steps) ==
    LET here == [index |-> index, players_checked |-> players_checked,
                 turn_skipped |-> skipped, skipped_player_id |-> skipped_id,
                 exit |-> "loop", steps |-> steps]
    IN  IF loop_continues(players_checked)
        THEN LET current_id == player_at(index)
                 entered == [steps EXCEPT !.iterations = @ + 1]
                 asked == [entered EXCEPT
                              !.evaluated = Append(@, current_id)]
             IN  IF current_id \in checked_players
                 THEN [here EXCEPT !.exit = "seen", !.steps = entered]
                 ELSE IF can_player_move(intersections, position, escaped,
                                         current_id)
                 THEN [here EXCEPT !.exit = "break", !.steps = asked]
                 ELSE skip_scan((index + 1) % 2, players_checked + 1,
                                checked_players \cup {current_id},
                                TRUE, current_id,
                                [asked EXCEPT !.advances = @ + 1])
        ELSE [here EXCEPT !.exit = "done"]

\* switch_turn without the early return for a game that is over
switch_turn_no_early_return ==
    /\ calls_left > 0
    /\ calls_left' = calls_left - 1
    /\ op' = "switch_turn"
    /\ last_actor' = NoPlayer
    /\ UNCHANGED <<intersections, position, escaped>>
    /\ selected_pawn' = None
    /\ LET w == check_victory(escaped)
       IN  IF w # NoPlayer
           THEN /\ winner' = w
                /\ phase' = GAME_OVER
                /\ turn_skipped' = FALSE
                /\ skipped_player_id' = NoPlayer
                /\ ret' = <<FALSE, NoPlayer>>
                /\ UNCHANGED <<current_player_index, stalemate>>
           ELSE LET scan == skip_scan((current_player_index + 1) % 2,
                                      0, {}, FALSE, NoPlayer,
                                              first_steps)
                    over == \/ scan.exit = "seen"
                            \/ scan.players_checked >= 2
                IN  /\ current_player_index' = scan.index
                    /\ turn_skipped' = scan.turn_skipped
                    /\ skipped_player_id' = scan.skipped_player_id
                    /\ stalemate' = IF over THEN TRUE ELSE stalemate
                    /\ phase' = IF over THEN GAME_OVER ELSE phase
                    /\ ret' = IF over THEN <<FALSE, NoPlayer>>
                              ELSE <<scan.turn_skipped,
                                     scan.skipped_player_id>>
                    /\ UNCHANGED winner

\* switch_turn that clears turn_skipped and forgets skipped_player_id
switch_turn_keeps_skipped_id ==
    /\ calls_left > 0
    /\ calls_left' = calls_left - 1
    /\ op' = "switch_turn"
    /\ last_actor' = NoPlayer
    /\ UNCHANGED <<intersections, position, escaped>>
    /\ IF phase = GAME_OVER
       THEN /\ ret' = <<FALSE, NoPlayer>>
            /\ UNCHANGED <<phase, current_player_index, selected_pawn, winner,
                           turn_skipped, skipped_player_id, stalemate>>
       ELSE /\ selected_pawn' = None
            /\ LET w == check_victory(escaped)
               IN  IF w # NoPlayer
                   THEN /\ winner' = w
                        /\ phase' = GAME_OVER
                        /\ turn_skipped' = FALSE
                        /\ skipped_player_id' = skipped_player_id
                        /\ ret' = <<FALSE, NoPlayer>>
                        /\ UNCHANGED <<current_player_index, stalemate>>
                   ELSE LET scan == skip_scan((current_player_index + 1) % 2,
                                              0, {}, FALSE, skipped_player_id,
                                              first_steps)
                            over == \/ scan.exit = "seen"
                                    \/ scan.players_checked >= 2
                        IN  /\ current_player_index' = scan.index
                            /\ turn_skipped' = scan.turn_skipped
                            /\ skipped_player_id' = scan.skipped_player_id
                            /\ stalemate' = IF over THEN TRUE ELSE stalemate
                            /\ phase' = IF over THEN GAME_OVER ELSE phase
                            /\ ret' = IF over THEN <<FALSE, NoPlayer>>
                                      ELSE <<scan.turn_skipped,
                                             scan.skipped_player_id>>
                            /\ UNCHANGED winner

switch_turn ==
    /\ calls_left > 0
    /\ calls_left' = calls_left - 1
    /\ op' = "switch_turn"
    /\ last_actor' = NoPlayer
    /\ UNCHANGED <<intersections, position, escaped>>
    /\ IF phase = GAME_OVER
       THEN /\ ret' = <<FALSE, NoPlayer>>
            /\ UNCHANGED <<phase, current_player_index, selected_pawn, winner,
                           turn_skipped, skipped_player_id, stalemate>>
       ELSE /\ selected_pawn' = None
            /\ LET w == check_victory(escaped)
               IN  IF w # NoPlayer
                   THEN /\ winner' = w
                        /\ phase' = GAME_OVER
                        /\ turn_skipped' = FALSE
                        /\ skipped_player_id' = NoPlayer
                        /\ ret' = <<FALSE, NoPlayer>>
                        /\ UNCHANGED <<current_player_index, stalemate>>
                   ELSE LET scan == skip_scan((current_player_index + 1) % 2,
                                              0, {}, FALSE, NoPlayer,
                                              first_steps)
                            over == \/ scan.exit = "seen"
                                    \/ scan.players_checked >= 2
                        IN  /\ current_player_index' = scan.index
                            /\ turn_skipped' = scan.turn_skipped
                            /\ skipped_player_id' = scan.skipped_player_id
                            /\ stalemate' = IF over THEN TRUE ELSE stalemate
                            /\ phase' = IF over THEN GAME_OVER ELSE phase
                            /\ ret' = IF over THEN <<FALSE, NoPlayer>>
                                      ELSE <<scan.turn_skipped,
                                             scan.skipped_player_id>>
                            /\ UNCHANGED winner

(* input_handler.py, main.py: the selected-pawn reference *)

\* a click on an on-board pawn of the current player selects it
select_pawn(pawn) ==
    /\ phase # GAME_OVER
    /\ pawn \in get_pawns_on_board(position, escaped, get_current_player)
    /\ selected_pawn' = pawn
    /\ op' = "select_pawn"
    /\ ret' = <<>>
    /\ UNCHANGED <<intersections, position, escaped, phase,
                   current_player_index, winner, turn_skipped,
                   skipped_player_id, stalemate, last_actor,
                   calls_left>>

\* the ESC key (or a click off the grid) drops the selection
deselect_pawn ==
    /\ selected_pawn # None
    /\ selected_pawn' = None
    /\ op' = "deselect_pawn"
    /\ ret' = <<>>
    /\ UNCHANGED <<intersections, position, escaped, phase,
                   current_player_index, winner, turn_skipped,
                   skipped_player_id, stalemate, last_actor,
                   calls_left>>

Next ==
    \/ \E pawn \in Pawns, c \in ArgCells : place_pawn(pawn, c[1], c[2])
    \/ \E pawn \in Pawns, c \in ArgCells : move_pawn(pawn, c[1], c[2])
    \/ \E pawn \in Pawns : escape_pawn(pawn)
    \/ switch_turn
    \/ reset_game

Spec == Init /\ [][Next]_vars

\* the same machine followed for DeepCalls calls
InitDeep ==
    /\ intersections = [c \in Cells |-> None]
    /\ position = [pawn \in Pawns |-> None]
    /\ escaped = [pawn \in Pawns |-> FALSE]
    /\ phase = PLAYING
    /\ current_player_index = 0
    /\ selected_pawn = None
    /\ winner = NoPlayer
    /\ turn_skipped = FALSE
    /\ skipped_player_id = NoPlayer
    /\ stalemate = FALSE
    /\ op = "init"
    /\ ret = <<>>
    /\ last_actor = NoPlayer
    /\ calls_left = DeepCalls

SpecDeep == InitDeep /\ [][Next]_vars

\* the machine with the clicks and keys that set and drop the selection
NextSelect ==
    \/ Next
    \/ \E pawn \in Pawns : select_pawn(pawn)
    \/ deselect_pawn

InitSelect ==
    /\ intersections = [c \in Cells |-> None]
    /\ position = [pawn \in Pawns |-> None]
    /\ escaped = [pawn \in Pawns |-> FALSE]
    /\ phase = PLAYING
    /\ current_player_index = 0
    /\ selected_pawn = None
    /\ winner = NoPlayer
    /\ turn_skipped = FALSE
    /\ skipped_player_id = NoPlayer
    /\ stalemate = FALSE
    /\ op = "init"
    /\ ret = <<>>
    /\ last_actor = NoPlayer
    /\ calls_left = SelectCalls

SpecSelect == InitSelect /\ [][NextSelect]_vars

(***************************************************************************)
(* A game one escape from victory.  Player 1 has played alone, player 2    *)
(* being skipped by switch_turn for want of a pawn: each pawn of player 1  *)
(* but pawn 0 was placed, walked up its column and escaped, pawn 0 was     *)
(* placed at (1, GRID_SIZE - 1) and walked to the escape cell (1, 0), and  *)
(* then player 2 placed its pawn 0 at (GRID_SIZE - 1, 1).                  *)
(***************************************************************************)
InitEndgame ==
    /\ intersections =
           [c \in Cells |-> IF c = <<1, 0>> THEN <<1, 0>>
                            ELSE IF c = <<GRID_SIZE - 1, 1>> THEN <<2, 0>>
                            ELSE None]
    /\ position =
           [pawn \in Pawns |-> IF pawn = <<1, 0>> THEN <<1, 0>>
                               ELSE IF pawn = <<2, 0>> THEN <<GRID_SIZE - 1, 1>>
                               ELSE None]
    /\ escaped = [pawn \in Pawns |-> pawn[1] = 1 /\ pawn[2] # 0]
    /\ phase = PLAYING
    /\ current_player_index = 0
    /\ selected_pawn = None
    /\ winner = NoPlayer
    /\ turn_skipped = TRUE
    /\ skipped_player_id = 2
    /\ stalemate = FALSE
    /\ op = "place_pawn"
    /\ ret = <<TRUE>>
    /\ last_actor = 2
    /\ calls_left = EndCalls

SpecEndgame == InitEndgame /\ [][Next]_vars

(* Calls made on the objects of the game directly, as the tests make them *)

\* pawn.move_to(game_state.board, to_x, to_y)
move_to(pawn, to_x, to_y) ==
    /\ calls_left > 0
    /\ calls_left' = calls_left - 1
    /\ op' = "move_to"
    /\ LET moved == Pawn_move_to(intersections, position, escaped, pawn,
                                 to_x, to_y)
       IN  /\ intersections' = moved.board
           /\ position' = moved.position
           /\ escaped' = moved.escaped
           /\ ret' = <<moved.ok>>
    /\ UNCHANGED <<phase, current_player_index, selected_pawn, winner,
                   turn_skipped, skipped_player_id, stalemate, last_actor>>

\* check_victory that commits the victory it finds
check_victory_call_commits ==
    /\ op' = "check_victory"
    /\ ret' = <<check_victory(escaped)>>
    /\ winner' = IF check_victory(escaped) # NoPlayer
                 THEN check_victory(escaped) ELSE winner
    /\ phase' = IF check_victory(escaped) # NoPlayer THEN GAME_OVER ELSE phase
    /\ UNCHANGED <<intersections, position, escaped, current_player_index,
                   selected_pawn, turn_skipped, skipped_player_id, stalemate,
                   last_actor, calls_left>>

\* game_state.check_victory()
check_victory_call ==
    /\ op' = "check_victory"
    /\ ret' = <<check_victory(escaped)>>
    /\ UNCHANGED <<intersections, position, escaped, phase,
                   current_player_index, selected_pawn, winner, turn_skipped,
                   skipped_player_id, stalemate, last_actor, calls_left>>

\* game_state.board.get_all_starting_positions(player)
get_all_starting_positions_call(player_id) ==
    /\ op' = "get_all_starting_positions"
    /\ ret' = <<player_id, get_all_starting_positions(player_id)>>
    /\ UNCHANGED <<intersections, position, escaped, phase,
                   current_player_index, selected_pawn, winner, turn_skipped,
                   skipped_player_id, stalemate, last_actor, calls_left>>

\* game_state.board.get_all_escape_positions(player)
get_all_escape_positions_call(player_id) ==
    /\ op' = "get_all_escape_positions"
    /\ ret' = <<player_id, get_all_escape_positions(player_id)>>
    /\ UNCHANGED <<intersections, position, escaped, phase,
                   current_player_index, selected_pawn, winner, turn_skipped,
                   skipped_player_id, stalemate, last_actor, calls_left>>

NextObjects ==
    \/ Next
    \/ \E pawn \in Pawns, c \in ArgCells : move_to(pawn, c[1], c[2])
    \/ check_victory_call
    \/ \E id \in PlayerIds : get_all_starting_positions_call(id)
    \/ \E id \in PlayerIds : get_all_escape_positions_call(id)

InitObjects ==
    /\ intersections = [c \in Cells |-> None]
    /\ position = [pawn \in Pawns |-> None]
    /\ escaped = [pawn \in Pawns |-> FALSE]
    /\ phase = PLAYING
    /\ current_player_index = 0
    /\ selected_pawn = None
    /\ winner = NoPlayer
    /\ turn_skipped = FALSE
    /\ skipped_player_id = NoPlayer
    /\ stalemate = FALSE
    /\ op = "init"
    /\ ret = <<>>
    /\ last_actor = NoPlayer
    /\ calls_left = ObjectCalls

SpecObjects == InitObjects /\ [][NextObjects]_vars

----------------------------------------------------------------------------
(* Properties *)

\* the one neighbour ahead of an on-board pawn on its owner's advance axis
forward_cell(pawn) ==
    IF pawn[1] = 1
    THEN <<position[pawn][1], position[pawn][2] - 1>>
    ELSE <<position[pawn][1] - 1, position[pawn][2]>>

\* the cell is on the starting edge of the player, corners excluded
on_starting_edge(c, player_id) ==
    \/ player_id = 1 /\ c[2] = GRID_SIZE - 1 /\ 1 <= c[1] /\ c[1] <= GRID_SIZE - 2
    \/ player_id = 2 /\ c[1] = GRID_SIZE - 1 /\ 1 <= c[2] /\ c[2] <= GRID_SIZE - 2

\* the cell is on the escape edge of the player, corners excluded
on_escape_edge(c, player_id) ==
    \/ player_id = 1 /\ c[2] = 0 /\ 1 <= c[1] /\ c[1] <= GRID_SIZE - 2
    \/ player_id = 2 /\ c[1] = 0 /\ 1 <= c[2] /\ c[2] <= GRID_SIZE - 2

ActionOps == {"place_pawn", "move_pawn", "escape_pawn"}

(* C1: in every reachable state a cell holds pawn p if and only if p is    *)
(* on-board and p's position is that cell, and no two on-board pawns share *)
(* a position.                                                             *)
C1_OccupancyAgreesWithPositions ==
    /\ \A c \in Cells, pawn \in Pawns :
           intersections[c] = pawn
               <=> (is_on_board(position, escaped, pawn) /\ position[pawn] = c)
    /\ \A p1 \in Pawns, p2 \in Pawns :
           (/\ p1 # p2
            /\ is_on_board(position, escaped, p1)
            /\ is_on_board(position, escaped, p2)) => position[p1] # position[p2]

(* C2: a place_pawn, move_pawn or escape_pawn call that returns False      *)
(* leaves board, positions, escaped flags, phase, winner, stalemate and    *)
(* current_player_index as they were.                                      *)
C2_FailedCallChangesNothing ==
    [][(op' \in ActionOps /\ ret' = <<FALSE>>) => game' = game]_vars

\* a call was rejected in a running game with a pawn on the board
C2_Witness ==
    /\ op \in ActionOps
    /\ ret = <<FALSE>>
    /\ phase = PLAYING
    /\ \E pawn \in Pawns : is_on_board(position, escaped, pawn)

C5_MoveOntoEscapeCellEscapes ==
    [][(op' = "move_pawn" /\ ret' = <<TRUE>>) =>
          \A pawn \in Pawns, c \in ArgCells :
              (move_pawn(pawn, c[1], c[2]) /\ on_escape_edge(c, pawn[1])) =>
                  /\ is_escaped(escaped', pawn)
                  /\ ~is_on_board(position', escaped', pawn)
                  /\ position'[pawn] = None
                  /\ intersections'[c] = None]_vars

(* C6: escape_pawn(pawn) returns True if and only if phase is PLAYING, the *)
(* owner is the current player, the pawn is on-board and stands on an      *)
(* escape cell of its owner; on success the former cell is empty, the pawn *)
(* is escaped with no position, and no other pawn or cell has changed.     *)
C6_EscapeExactlyOnEscapeCell ==
    [][op' = "escape_pawn" =>
          \A pawn \in Pawns :
              escape_pawn(pawn) =>
                  LET allowed == /\ phase = PLAYING
                                 /\ pawn[1] = get_current_player
                                 /\ is_on_board(position, escaped, pawn)
                                 /\ on_escape_edge(position[pawn], pawn[1])
                  IN  /\ ret' = <<allowed>>
                      /\ allowed =>
                            /\ intersections' =
                                   [intersections EXCEPT ![position[pawn]] = None]
                            /\ intersections[position[pawn]] = pawn
                            /\ is_escaped(escaped', pawn)
                            /\ position'[pawn] = None
                            /\ \A other \in Pawns \ {pawn} :
                                   /\ position'[other] = position[other]
                                   /\ escaped'[other] = escaped[other]]_vars

\* an escape has just succeeded while the other player has a pawn on board
C6_Witness ==
    /\ op = "escape_pawn"
    /\ ret = <<TRUE>>
    /\ \E pawn \in Pawns : is_escaped(escaped, pawn)
    /\ \E pawn \in Pawns : is_on_board(position, escaped, pawn)

C8_PlaceFailsWhenGameOver ==
    [][(op' = "place_pawn" /\ phase = GAME_OVER) =>
          /\ ret' = <<FALSE>>
          /\ UNCHANGED <<intersections, position, escaped,
                         current_player_index>>]_vars

(* C9: once a pawn is escaped it stays escaped, with no position, under    *)
(* every place_pawn, move_pawn, escape_pawn and switch_turn call; only     *)
(* reset_game ends it.                                                     *)
C9_EscapeIsPermanent ==
    [][\A pawn \in Pawns :
          (is_escaped(escaped, pawn) /\ op' # "reset_game") =>
              (is_escaped(escaped', pawn) /\ position'[pawn] = None)]_vars

(* C10: when place_pawn, move_pawn or escape_pawn has returned True, phase *)
(* is GAME_OVER or the current player can move at least one on-board pawn. *)
C10_PlayerToActCanMove ==
    (op \in ActionOps /\ ret = <<TRUE>>) =>
        \/ phase = GAME_OVER
        \/ can_move_any_pawn(intersections, position, escaped,
                             get_current_player)

\* the other of the two players
opponent(player_id) == 3 - player_id

C12_VictoryCommittedByAction ==
    /\ [](\A id \in PlayerIds :
              has_won(escaped, id) => (phase = GAME_OVER /\ winner = id))
    /\ [][\A id \in PlayerIds :
              (/\ op' \in ActionOps
               /\ ret' = <<TRUE>>
               /\ ~has_won(escaped, id)
               /\ has_won(escaped', id)) =>
                  /\ phase' = GAME_OVER
                  /\ winner' = id
                  /\ last_actor' = id]_vars

\* an escape has just made its player win
C12_Witness ==
    /\ op = "escape_pawn"
    /\ ret = <<TRUE>>
    /\ \E id \in PlayerIds : has_won(escaped, id) /\ last_actor = id

(* C13: the call that detects a victory (a successful place_pawn,          *)
(* move_pawn or escape_pawn, or a switch_turn) leaves current_player_index *)
(* as it was before the call, so the current player is the winner.         *)
C13_VictoryLeavesTurnIndex ==
    [][(/\ op' \in ActionOps \cup {"switch_turn"}
        /\ winner = NoPlayer
        /\ winner' # NoPlayer) =>
           /\ current_player_index' = current_player_index
           /\ player_at(current_player_index') = winner']_vars

\* no on-board pawn of the player has an empty in-grid cell straight ahead
cannot_move(player_id) ==
    \A pawn \in Pawns :
        (pawn[1] = player_id /\ is_on_board(position, escaped, pawn)) =>
            LET f == forward_cell(pawn)
            IN  ~(f \in Cells /\ intersections[f] = None)

nobody_has_won ==
    \A id \in PlayerIds :
        \E pawn \in Pawns : pawn[1] = id /\ ~escaped[pawn]

C15_SkipsBlockedOpponent ==
    [][(/\ op' = "switch_turn"
        /\ phase = PLAYING
        /\ nobody_has_won
        /\ cannot_move(get_other_player)
        /\ ~cannot_move(get_current_player)) =>
           /\ current_player_index' = current_player_index
           /\ phase' = PLAYING
           /\ turn_skipped' = TRUE
           /\ skipped_player_id' = get_other_player
           /\ ret' = <<TRUE, get_other_player>>]_vars

\* switch_turn has just skipped a player whose pawn on the board is blocked
C15_Witness ==
    /\ op = "switch_turn"
    /\ phase = PLAYING
    /\ \E id \in PlayerIds :
           /\ ret = <<TRUE, id>>
           /\ get_current_player = opponent(id)
           /\ get_pawns_on_board(position, escaped, id) # {}
           /\ cannot_move(id)
           /\ ~cannot_move(opponent(id))

(* C16: starting from the initial state, one switch_turn call makes player *)
(* 2 the current player and a second switch_turn call makes player 1 the   *)
(* current player again.  The state with op = "switch_turn" and one call   *)
(* spent is the state after the first switch_turn from the initial state.  *)
C16_SwitchTurnAlternates ==
    [][(/\ op = "switch_turn"
        /\ calls_left = MaxCalls - 1
        /\ op' = "switch_turn") =>
           /\ get_current_player = 2
           /\ player_at(current_player_index') = 1]_vars

(* C17: switch_turn called while phase is GAME_OVER leaves                 *)
(* current_player_index, phase, winner, stalemate, the board and all pawns *)
(* unchanged and returns (False, None).                                    *)
C17_SwitchTurnNoOpWhenGameOver ==
    [][(op' = "switch_turn" /\ phase = GAME_OVER) =>
          /\ UNCHANGED <<current_player_index, phase, winner, stalemate,
                         intersections, position, escaped>>
          /\ ret' = <<FALSE, NoPlayer>>]_vars

\* switch_turn has returned in a finished game in which a player could move:
\* the call was made with the game already over
C17_Witness ==
    /\ op = "switch_turn"
    /\ phase = GAME_OVER
    /\ \E id \in PlayerIds : ~cannot_move(id)

(* C18: after a switch_turn call made while phase is already GAME_OVER,    *)
(* turn_skipped is False, skipped_player_id is None and selected_pawn is   *)
(* None, whatever they were before the call.                               *)
C18_GameOverSwitchClearsFields ==
    [][(op' = "switch_turn" /\ phase = GAME_OVER) =>
          /\ turn_skipped' = FALSE
          /\ skipped_player_id' = NoPlayer
          /\ selected_pawn' = None]_vars

(* C19: after any place_pawn, move_pawn, escape_pawn or switch_turn call   *)
(* that changes current_player_index, selected_pawn is None, whatever it   *)
(* was before the call.                                                    *)
C19_TurnChangeClearsSelection ==
    [][(/\ op' \in ActionOps \cup {"switch_turn"}
        /\ current_player_index' # current_player_index) =>
           selected_pawn' = None]_vars

all_escaped(player_id) ==
    \A pawn \in Pawns : pawn[1] = player_id => escaped[pawn]

(* C21: check_victory returns a player all of whose pawns are escaped, or  *)
(* None when there is no such player, and leaves phase, winner, stalemate, *)
(* current_player_index, the board and the pawns as they were, also when   *)
(* it returns a player while phase is PLAYING.                             *)
C21_CheckVictoryIsPure ==
    [][op' = "check_victory" =>
          /\ game' = game
          /\ \/ ret' = <<NoPlayer>> /\ \A id \in PlayerIds : ~all_escaped(id)
             \/ \E id \in PlayerIds : ret' = <<id>> /\ all_escaped(id)]_vars

\* check_victory has returned a player in a game that is still running
C21_Witness ==
    /\ op = "check_victory"
    /\ ret[1] \in PlayerIds
    /\ phase = PLAYING
    /\ winner = NoPlayer

(* C22: once phase is GAME_OVER it stays GAME_OVER, and winner and         *)
(* stalemate keep their values, under every place_pawn, move_pawn,         *)
(* escape_pawn and switch_turn call; only reset_game leaves GAME_OVER.     *)
C22_GameOverIsTerminal ==
    [][(phase = GAME_OVER /\ op' # "reset_game") =>
          /\ phase' = GAME_OVER
          /\ winner' = winner
          /\ stalemate' = stalemate]_vars

\* a placement has succeeded in a game that a victory had ended
C22_Witness ==
    /\ phase = GAME_OVER
    /\ winner # NoPlayer
    /\ op \in ActionOps \cup {"switch_turn"}
    /\ last_actor # winner
    /\ calls_left < EndCalls - 2

pawn_unplaced(pawn) == position[pawn] = None /\ ~escaped[pawn]

pawn_on_board(pawn) == position[pawn] # None /\ ~escaped[pawn]

pawn_escaped(pawn) == escaped[pawn] /\ position[pawn] = None

(* C23: every pawn is in exactly one of the states unplaced (no position,  *)
(* not escaped), on-board (position, not escaped) and escaped (escaped, no *)
(* position); an escaped pawn has no position.                             *)
C23_PawnInExactlyOneState ==
    \A pawn \in Pawns :
        /\ Cardinality({s \in {"unplaced", "on-board", "escaped"} :
                \/ s = "unplaced" /\ pawn_unplaced(pawn)
                \/ s = "on-board" /\ pawn_on_board(pawn)
                \/ s = "escaped"  /\ pawn_escaped(pawn)}) = 1
        /\ escaped[pawn] => position[pawn] = None
        /\ is_on_board(position, escaped, pawn) <=> pawn_on_board(pawn)
        /\ is_escaped(escaped, pawn) <=> pawn_escaped(pawn)

\* escape_pawn has just taken a pawn off the board, where another stands
C23_Witness ==
    /\ op = "escape_pawn" /\ ret = <<TRUE>>
    /\ \E pawn \in Pawns : pawn_escaped(pawn) /\ pawn[1] = last_actor
    /\ \E pawn \in Pawns : pawn_on_board(pawn)

(* C24: for each player get_unplaced_pawns, get_pawns_on_board and         *)
(* get_escaped_pawns are pairwise disjoint and together hold every pawn of *)
(* the roster, so their sizes sum to PAWNS_PER_PLAYER.                     *)
C24_ListsPartitionRoster ==
    \A id \in PlayerIds :
        LET unplaced == get_unplaced_pawns(position, escaped, id)
            on_board == get_pawns_on_board(position, escaped, id)
            gone     == get_escaped_pawns(escaped, id)
        IN  /\ unplaced \cap on_board = {}
            /\ unplaced \cap gone = {}
            /\ on_board \cap gone = {}
            /\ unplaced \cup on_board \cup gone = get_pawns(id)
            /\ Cardinality(unplaced) + Cardinality(on_board)
                  + Cardinality(gone) = PAWNS_PER_PLAYER

\* one roster has an escaped pawn while the other has a pawn on the board
C24_Witness ==
    \E id \in PlayerIds :
        /\ get_escaped_pawns(escaped, id) # {}
        /\ get_pawns_on_board(position, escaped, opponent(id)) # {}
        /\ get_unplaced_pawns(position, escaped, opponent(id)) = {}

some_pawn_unplaced == \E pawn \in Pawns : pawn_unplaced(pawn)

C27_SkipScanIsBounded ==
    [][(op' = "switch_turn" /\ phase = PLAYING
          /\ check_victory(escaped) = NoPlayer) =>
          LET scan == skip_scan((current_player_index + 1) % 2, 0, {},
                                FALSE, NoPlayer, first_steps)
              evaluated == scan.steps.evaluated
          IN  /\ scan.steps.iterations <= 2
              /\ Len(evaluated) <= 2
              /\ \A i, j \in 1..Len(evaluated) :
                     evaluated[i] = evaluated[j] => i = j
              /\ scan.steps.advances <= 3
              /\ scan.exit \in {"break", "done"}
              /\ current_player_index' = scan.index]_vars

\* switch_turn has run the loop to its end: both players were asked, none
\* could move, and the third advance has left the index on the opponent of
\* the player asked last
C27_Witness ==
    /\ op = "switch_turn" /\ ret = <<FALSE, NoPlayer>>
    /\ stalemate /\ phase = GAME_OVER /\ winner = NoPlayer
    /\ turn_skipped /\ skipped_player_id = get_other_player
    /\ \E pawn \in Pawns : pawn_on_board(pawn)

centre_of_starting_edge(player_id) ==
    IF player_id = 1
    THEN {<<x, GRID_SIZE - 1>> : x \in 1 .. (GRID_SIZE - 2)}
    ELSE {<<GRID_SIZE - 1, y>> : y \in 1 .. (GRID_SIZE - 2)}

\* the centre GRID_SIZE - 2 cells of the opposite edge
centre_of_escape_edge(player_id) ==
    IF player_id = 1
    THEN {<<x, 0>> : x \in 1 .. (GRID_SIZE - 2)}
    ELSE {<<0, y>> : y \in 1 .. (GRID_SIZE - 2)}

corners ==
    {<<0, 0>>, <<0, GRID_SIZE - 1>>, <<GRID_SIZE - 1, 0>>,
     <<GRID_SIZE - 1, GRID_SIZE - 1>>}

elements(list) == {list[i] : i \in 1 .. Len(list)}

in_lane(c, player_id) ==
    \/ player_id = 1 /\ 1 <= c[1] /\ c[1] <= GRID_SIZE - 2
    \/ player_id = 2 /\ 1 <= c[2] /\ c[2] <= GRID_SIZE - 2

C32_GameOverHasOneCause ==
    /\ phase = GAME_OVER <=> (winner # NoPlayer \/ stalemate)
    /\ ~(winner # NoPlayer /\ stalemate)
    /\ phase \in {PLAYING, GAME_OVER}

\* a stalemate has been declared and a placement has succeeded after it
C32_Witness ==
    /\ phase = GAME_OVER /\ stalemate /\ winner = NoPlayer
    /\ op = "place_pawn" /\ ret = <<TRUE>>

(* C33: if winner is set, the winner has all its pawns escaped (has_won()  *)
(* is true for it) and the other player has not won.                       *)
C33_WinnerHasWon ==
    winner # NoPlayer =>
        /\ has_won(escaped, winner)
        /\ ~has_won(escaped, opponent(winner))

\* no place_pawn, move_pawn or escape_pawn call of either player would be
\* a legal action
no_legal_action ==
    /\ \A id \in PlayerIds :
           ~ /\ \E pawn \in get_pawns(id) : pawn_unplaced(pawn)
             /\ \E c \in Cells :
                    on_starting_edge(c, id) /\ intersections[c] = None
    /\ \A pawn \in Pawns :
           pawn_on_board(pawn) =>
               /\ ~(forward_cell(pawn) \in Cells
                      /\ intersections[forward_cell(pawn)] = None)
               /\ ~on_escape_edge(position[pawn], pawn[1])

(* C34: when switch_turn declares a stalemate, in the state it leaves no   *)
(* player has both an unplaced pawn and an empty starting cell, no         *)
(* on-board pawn has a legal destination, and no pawn stands on an escape  *)
(* cell of its owner.                                                      *)
C34_StalemateOnlyWithoutActions ==
    [][(op' = "switch_turn" /\ ~stalemate /\ stalemate') =>
          no_legal_action']_vars

\* the number of successful actions a pawn still has before it: one
\* placement, one move for each cell between it and its escape edge, one
\* escape
actions_ahead(pos, esc, pawn) ==
    IF esc[pawn] THEN 0
    ELSE IF pos[pawn] = None THEN GRID_SIZE + 1
    ELSE 1 + pos[pawn][IF pawn[1] = 1 THEN 2 ELSE 1]

(* C35: every successful place_pawn places a pawn that was unplaced, and   *)
(* every successful place_pawn, move_pawn or escape_pawn takes one pawn    *)
(* one step further along unplaced, on-board (at most GRID_SIZE - 1        *)
(* moves), escaped and leaves the others where they are; so without        *)
(* reset_game the successful actions are finitely many and no earlier      *)
(* state of board and pawns comes back.                                    *)
C35_SuccessfulActionsAreFinite ==
    [][(op' \in ActionOps /\ ret' = <<TRUE>>) =>
          /\ \A pawn \in Pawns :
                 actions_ahead(position', escaped', pawn)
                     <= actions_ahead(position, escaped, pawn)
          /\ \E pawn \in Pawns :
                 actions_ahead(position', escaped', pawn)
                     < actions_ahead(position, escaped, pawn)
          /\ op' = "place_pawn" =>
                 \A pawn \in Pawns :
                     position'[pawn] # position[pawn] => pawn_unplaced(pawn)]_vars

(* C36: the pair that switch_turn returns equals the fields on return:     *)
(* after switch_turn has returned (s, id), turn_skipped = s and            *)
(* skipped_player_id = id, also when the call declares a stalemate,        *)
(* detects a winner or is made in a game that is over.                     *)
C36_ReturnedPairEqualsFields ==
    op = "switch_turn" => ret = <<turn_skipped, skipped_player_id>>

(* C37: turn_skipped is True if and only if skipped_player_id is set, and  *)
(* a set skipped_player_id is the id of one of the two players.            *)
C37_SkipFieldsAgree ==
    /\ turn_skipped \in BOOLEAN
    /\ turn_skipped <=> skipped_player_id # NoPlayer
    /\ skipped_player_id # NoPlayer => skipped_player_id \in PlayerIds

\* an action has succeeded after a switch_turn that skipped a player: the
\* two fields still hold what that switch_turn recorded
C37_Witness ==
    /\ turn_skipped /\ skipped_player_id \in PlayerIds
    /\ phase = PLAYING
    /\ op \in ActionOps /\ ret = <<TRUE>>
====
